---- MODULE Spec2Model ----
(***************************************************************************)
(* Model of program/server/ptrace.go: the dedicated-thread ptrace proxy.   *)
(*                                                                         *)
(* ptraceRun is the worker goroutine of one Server ("session"): it checks  *)
(* that both channels are unbuffered, locks itself to its OS thread and    *)
(* then runs every closure it receives on fc, sending the closure's error  *)
(* on ec.  The Server methods are the clients: each sends one closure on   *)
(* s.fc and then receives one error from s.ec.                             *)
(*                                                                         *)
(* The operating system (process table, tracee memory and registers, the   *)
(* thread a goroutine runs on) is the environment of the program; it is    *)
(* modelled by the outcome sets of the syscall primitives and the Tracee*  *)
(* and Migrate actions.                                                    *)
(***************************************************************************)
EXTENDS Integers, Sequences, FiniteSets, TLC

\* ------------------------------------------------------------------ bounds
NClients  == 2      \* client goroutines calling Server methods
NSessions == 2      \* Servers, each with its own fc/ec pair and worker
NThreads  == 2      \* OS threads the scheduler runs goroutines on
NPids     == 1      \* process ids the OS can hand out
MaxCap    == 1      \* largest channel capacity tried for fc and ec
MaxCalls  == 3      \* calls made in all
MemSize   == 2      \* mapped bytes of a tracee's address space
MaxLen    == 2      \* longest peek/poke buffer
MaxByte   == 1      \* largest byte value poked
MaxPC     == 1      \* largest program counter value

Clients  == 1..NClients
Sessions == 1..NSessions
Threads  == 1..NThreads
Pids     == 1..NPids
Addrs    == 0..(MemSize - 1)
Bytes    == 0..MaxByte
PCs      == 0..MaxPC

Min(a, b) == IF a < b THEN a ELSE b

\* ------------------------------------------------------------ error values
\* A Go error value.  Nil is the nil error; Errno(e) is a syscall.Errno or
\* os error reported by the primitive; Errorf(f, x, y) is the value built by
\* fmt.Errorf(f, x, y) with a two-verb format string.
Nil == [kind |-> "nil", msg |-> "", a |-> 0, b |-> 0]

Errno(e) == [kind |-> "errno", msg |-> e, a |-> 0, b |-> 0]

Errorf(f, x, y) == [kind |-> "fmt", msg |-> f, a |-> x, b |-> y]

PeekFmt == "ptracePeek: peeked %d bytes, want %d"

PokeFmt == "ptracePoke: poked %d bytes, want %d"

\* ---------------------------------------------------------------- requests
\* The arguments of one Server method call.  op names the method; the other
\* fields are the arguments that method takes (unused ones are zero).
Req(op, pid, addr, data, n, arg) ==
    [op |-> op, pid |-> pid, addr |-> addr, data |-> data, n |-> n, arg |-> arg]

Zeros(n) == [i \in 1..n |-> 0]

\* the buffers poked: of every length, the byte values counting up from b
Pattern(b, n) == [i \in 1..n |-> (b + i - 1) % (MaxByte + 1)]

PokeData == {Pattern(b, n) : b \in Bytes, n \in 0..MaxLen}

StartReqs == {Req("startProcess", 0, 0, <<>>, 0, 0)}

\* startProcess called with a nil attr (arg 1)
NilAttrReqs == {Req("startProcess", 0, 0, <<>>, 0, 1)}

ContReqs(ps) == {Req("ptraceCont", p, 0, <<>>, 0, 0) : p \in ps}

WaitReqs(ps) == {Req("wait", p, 0, <<>>, 0, 0) : p \in ps}

RegReqs(ps) ==
    {Req(op, p, 0, <<>>, 0, 0) :
        op \in {"ptraceSingleStep", "ptraceSetOptions", "ptraceGetRegs"}, p \in ps}
    \cup {Req("ptraceSetRegs", p, 0, <<>>, 0, v) : p \in ps, v \in PCs}

PeekReqs(ps, as, ns) == {Req("ptracePeek", p, a, <<>>, k, 0) : p \in ps, a \in as, k \in ns}

PokeReqs(ps, as, ds) == {Req("ptracePoke", p, a, d, Len(d), 0) : p \in ps, a \in as, d \in ds}

\* a method that blocks and what makes it block and return
BlockingReqs == StartReqs \cup ContReqs({1}) \cup WaitReqs({1})

\* every method, with one buffer for peek and poke
AllReqs ==
    StartReqs \cup ContReqs(Pids) \cup WaitReqs(Pids) \cup RegReqs(Pids)
    \cup PeekReqs(Pids, {0}, {1}) \cup PokeReqs(Pids, {0}, {<<MaxByte>>})

\* the memory methods with every address and buffer, and what sets a tracee up
MemReqs == StartReqs \cup PeekReqs({1}, Addrs, 0..MaxLen) \cup PokeReqs({1}, Addrs, PokeData)

\* the calls of the end-to-end session scenario, in order; the child started
\* is the first process, pid 1
Scenario ==
    << Req("startProcess", 0, 0, <<>>, 0, 0),
       Req("ptraceSetOptions", 1, 0, <<>>, 0, 0),
       Req("ptraceCont", 1, 0, <<>>, 0, 0),
       Req("wait", 1, 0, <<>>, 0, 0),
       Req("ptraceSingleStep", 1, 0, <<>>, 0, 0),
       Req("wait", 1, 0, <<>>, 0, 0),
       Req("ptraceGetRegs", 1, 0, <<>>, 0, 0) >>

\* ------------------------------------------------------------------- state
VARIABLES
    crashed,    \* the program died of an unrecovered panic
    capFc,      \* capFc[s] = cap(fc) of session s
    capEc,      \* capEc[s] = cap(ec)
    closedFc,   \* fc of session s has been closed
    fcBuf,      \* closures buffered in fc (always empty when cap(fc) = 0)
    ecBuf,      \* errors buffered in ec
    wpc,        \* position of ptraceRun
    wthread,    \* OS thread the worker goroutine currently runs on
    locked,     \* the worker has called runtime.LockOSThread
    cur,        \* the closure f of the current loop iteration
    res,        \* the value of f(), about to be sent on ec
    cpc,        \* position of each client in its Server method
    call,       \* the session and arguments of the client's current call
    frame,      \* the variables of the method's frame that the closure captures
    snap,       \* operands of the return statement already evaluated
    ret,        \* what the client's last call returned
    ncalls,     \* calls started by the client
    tracee,     \* the OS's view of each process id
    pending,    \* requests taken from fc whose response was not yet received
    execThr,    \* OS threads that have executed a primitive for the session
    invoked,    \* primitive invocations made for the client's current call
    validPokes, \* successful pokes not overlapped by a later poke
    hist        \* what the calls of the session scenario returned, in order

vars == <<crashed, capFc, capEc, closedFc, fcBuf, ecBuf, wpc, wthread, locked, cur, res,
          cpc, call, frame, snap, ret, ncalls, tracee, pending, execThr,
          invoked, validPokes, hist>>

chanVars   == <<capFc, capEc, closedFc, fcBuf, ecBuf>>
workerVars == <<wpc, wthread, locked, cur, res>>
clientVars == <<cpc, call, frame, snap, ret, ncalls>>
ghostVars  == <<pending, execThr, invoked, validPokes, hist>>

NoReq == Req("none", 0, 0, <<>>, 0, 0)

\* the named results and caller buffers a closure writes to
ZeroFrame(r) ==
    [proc |-> 0, wpid |-> 0, status |-> "zero", regs |-> 0,
     buf |-> IF r.op = "ptracePeek" THEN Zeros(r.n) ELSE <<>>]

NoSnap == [read |-> FALSE, proc |-> 0, wpid |-> 0, status |-> "zero"]

\* a closure: the request it was built from and the frame it captures
Closure(c, k, r) == [caller |-> c, k |-> k, req |-> r]

NoClosure == Closure(0, 0, NoReq)

\* what the primitive itself reported: the error and, for a transfer, the count
Reported(e, n) == [err |-> e, n |-> n]

\* the value sent on ec, with the run that produced it: the worker and the
\* closure that ran, what the primitive reported and the frame it left
Response(e, s, cl, o) ==
    [err |-> e, sess |-> s, caller |-> cl.caller, k |-> cl.k, made |-> o.fr, os |-> o.os]

NoRun == [err |-> Nil, fr |-> ZeroFrame(NoReq), os |-> Reported(Nil, 0)]

NoResponse == Response(Nil, 0, NoClosure, NoRun)

NoRet ==
    [err |-> Nil, vals |-> ZeroFrame(NoReq), sess |-> 0, of |-> 0, k |-> 0,
     made |-> ZeroFrame(NoReq), os |-> Reported(Nil, 0), expect |-> <<0, 0>>, n |-> 0,
     stuck |-> {}]

NoTracee == [state |-> "none", mem |-> [a \in Addrs |-> 0], pc |-> 0, changed |-> FALSE]

InitWith(sess, caps) ==
    /\ crashed = FALSE
    /\ capFc \in [Sessions -> {0}] \cup {[s \in Sessions |-> IF s \in sess THEN k ELSE 0] : k \in caps}
    /\ capEc \in [Sessions -> {0}] \cup {[s \in Sessions |-> IF s \in sess THEN k ELSE 0] : k \in caps}
    /\ closedFc = [s \in Sessions |-> FALSE]
    /\ fcBuf = [s \in Sessions |-> <<>>]
    /\ ecBuf = [s \in Sessions |-> <<>>]
    /\ wpc = [s \in Sessions |-> "check"]
    /\ wthread = [s \in Sessions |-> ((s - 1) % NThreads) + 1]
    /\ locked = [s \in Sessions |-> FALSE]
    /\ cur = [s \in Sessions |-> NoClosure]
    /\ res = [s \in Sessions |-> NoResponse]
    /\ cpc = [c \in Clients |-> "idle"]
    /\ call = [c \in Clients |-> [sess |-> 1, req |-> NoReq]]
    /\ frame = [c \in Clients |-> ZeroFrame(NoReq)]
    /\ snap = [c \in Clients |-> NoSnap]
    /\ ret = [c \in Clients |-> NoRet]
    /\ ncalls = [c \in Clients |-> 0]
    /\ tracee = [p \in Pids |-> NoTracee]
    /\ pending = [s \in Sessions |-> <<>>]
    /\ execThr = [s \in Sessions |-> {}]
    /\ invoked = [c \in Clients |-> 0]
    /\ validPokes = {}
    /\ hist = <<>>

Init == InitWith({1}, 0..MaxCap)

\* -------------------------------------------------- the OS primitives (env)
\* Each primitive is the set of outcomes the OS can produce in the current
\* state: the values the call returns and the tracee table afterwards.
Stopped(p) == p \in Pids /\ tracee[p].state = "stopped"

FreePids == {p \in Pids : tracee[p].state = "none"}

\* os.StartProcess with the ptrace attribute: the child starts and will stop
\* itself at exec, before its first instruction; the launch can fail.
OsStartProcess ==
    {[proc |-> p, err |-> Nil,
      tr |-> [tracee EXCEPT ![p] = [NoTracee EXCEPT !.state = "starting"]]] :
        p \in {q \in FreePids : \A q2 \in FreePids : q <= q2}}
    \cup {[proc |-> 0, err |-> Errno("ENOENT"), tr |-> tracee]}

\* PTRACE_CONT, PTRACE_SINGLESTEP: resume a stopped tracee.
OsResume(p, how) ==
    IF Stopped(p)
    THEN {[err |-> Nil, tr |-> [tracee EXCEPT ![p].state = how, ![p].changed = FALSE]]}
    ELSE {[err |-> Errno("ESRCH"), tr |-> tracee]}

OsSetOptions(p, options) ==
    IF Stopped(p) THEN {[err |-> Nil, tr |-> tracee]}
    ELSE {[err |-> Errno("ESRCH"), tr |-> tracee]}

OsGetRegs(p, regsout) ==
    IF Stopped(p) THEN {[err |-> Nil, regs |-> tracee[p].pc, tr |-> tracee]}
    ELSE {[err |-> Errno("ESRCH"), regs |-> regsout, tr |-> tracee]}

OsSetRegs(p, regs) ==
    IF Stopped(p) THEN {[err |-> Nil, tr |-> [tracee EXCEPT ![p].pc = regs]]}
    ELSE {[err |-> Errno("ESRCH"), tr |-> tracee]}

\* bytes of [addr, addr+len) that are mapped
Mapped(addr, len) == IF addr >= MemSize THEN 0 ELSE Min(len, MemSize - addr)

\* PtracePeekText: copies n <= len(out) bytes from addr into out and returns
\* n with an error or without one.
OsPeekText(p, addr, out) ==
    IF Stopped(p)
    THEN {[n |-> n, err |-> e, tr |-> tracee,
           out |-> [i \in 1..Len(out) |->
                      IF i <= n THEN tracee[p].mem[addr + i - 1] ELSE out[i]]] :
            n \in 0..Mapped(addr, Len(out)), e \in {Nil, Errno("EIO")}}
    ELSE {[n |-> 0, err |-> Errno("ESRCH"), tr |-> tracee, out |-> out]}

\* PtracePokeText: copies n <= len(data) bytes of data to addr.
OsPokeText(p, addr, data) ==
    IF Stopped(p)
    THEN {[n |-> n, err |-> e,
           tr |-> [tracee EXCEPT ![p].mem =
                     [a \in Addrs |->
                        IF a >= addr /\ a < addr + n THEN data[a - addr + 1]
                        ELSE tracee[p].mem[a]]]] :
            n \in 0..Mapped(addr, Len(data)), e \in {Nil, Errno("EIO")}}
    ELSE {[n |-> 0, err |-> Errno("ESRCH"), tr |-> tracee]}

\* Wait4(pid, &status, WALL, nil): returns at once with ECHILD when there is
\* no such child, returns the pending state change when there is one, and has
\* no outcome (the call blocks) otherwise.
OsWait4(p, status) ==
    IF p \notin Pids \/ tracee[p].state = "none"
    THEN {[wpid |-> -1, status |-> status, err |-> Errno("ECHILD"), tr |-> tracee]}
    ELSE IF tracee[p].changed
    THEN {[wpid |-> p, status |-> "stopped", err |-> Nil,
           tr |-> [tracee EXCEPT ![p].changed = FALSE]]}
    ELSE {}

\* ------------------------------------------- the closures of Server methods
\* Each is the set of possible runs of the closure the method sends on s.fc:
\* the error it returns, the caller's frame and the tracee table afterwards.
Ran(e, fr, tr, os) == [err |-> e, fr |-> fr, tr |-> tr, os |-> os]

startProcess(r, fr) ==
    {Ran(o.err, [fr EXCEPT !.proc = o.proc], o.tr, Reported(o.err, 0)) : o \in OsStartProcess}

ptraceCont(r, fr) == {Ran(o.err, fr, o.tr, Reported(o.err, 0)) : o \in OsResume(r.pid, "running")}

\* a closure that drops the error of the primitive
ptraceGetRegsSwallowed(r, fr) ==
    {Ran(Nil, [fr EXCEPT !.regs = o.regs], o.tr, Reported(o.err, 0)) : o \in OsGetRegs(r.pid, fr.regs)}

ptraceGetRegs(r, fr) ==
    {Ran(o.err, [fr EXCEPT !.regs = o.regs], o.tr, Reported(o.err, 0)) : o \in OsGetRegs(r.pid, fr.regs)}

\* the counts passed to Errorf in the wrong order
TransferErrSwapped(f, n, err, want) ==
    IF err # Nil THEN err
    ELSE IF n # want THEN Errorf(f, want, n)
    ELSE Nil

\* the count compared before the error is looked at
TransferErrCountFirst(f, n, err, want) ==
    IF n # want THEN Errorf(f, n, want)
    ELSE err

\* no comparison of n with the length of the buffer
TransferErrUnchecked(f, n, err, want) == err

\* the error policy of the peek and poke closures
TransferErr(f, n, err, want) ==
    IF err # Nil THEN err
    ELSE IF n # want THEN Errorf(f, n, want)
    ELSE Nil

ptracePeek(r, fr) ==
    {Ran(TransferErr(PeekFmt, o.n, o.err, Len(fr.buf)), [fr EXCEPT !.buf = o.out], o.tr,
         Reported(o.err, o.n)) :
        o \in OsPeekText(r.pid, r.addr, fr.buf)}

ptracePoke(r, fr) ==
    {Ran(TransferErr(PokeFmt, o.n, o.err, Len(r.data)), fr, o.tr, Reported(o.err, o.n)) :
        o \in OsPokeText(r.pid, r.addr, r.data)}

ptraceSetOptions(r, fr) == {Ran(o.err, fr, o.tr, Reported(o.err, 0)) : o \in OsSetOptions(r.pid, r.arg)}

ptraceSetRegs(r, fr) == {Ran(o.err, fr, o.tr, Reported(o.err, 0)) : o \in OsSetRegs(r.pid, r.arg)}

ptraceSingleStep(r, fr) == {Ran(o.err, fr, o.tr, Reported(o.err, 0)) : o \in OsResume(r.pid, "stepping")}

wait(r, fr) ==
    {Ran(o.err, [fr EXCEPT !.wpid = o.wpid, !.status = o.status], o.tr, Reported(o.err, 0)) :
        o \in OsWait4(r.pid, fr.status)}

\* f(): the runs of a closure
Run(r, fr) ==
    CASE r.op = "startProcess"     -> startProcess(r, fr)
      [] r.op = "ptraceCont"       -> ptraceCont(r, fr)
      [] r.op = "ptraceGetRegs"    -> ptraceGetRegs(r, fr)
      [] r.op = "ptracePeek"       -> ptracePeek(r, fr)
      [] r.op = "ptracePoke"       -> ptracePoke(r, fr)
      [] r.op = "ptraceSetOptions" -> ptraceSetOptions(r, fr)
      [] r.op = "ptraceSetRegs"    -> ptraceSetRegs(r, fr)
      [] r.op = "ptraceSingleStep" -> ptraceSingleStep(r, fr)
      [] r.op = "wait"             -> wait(r, fr)
      [] OTHER                     -> {}

\* ------------------------------------------------------------ the clients
RECURSIVE SumCalls(_)
SumCalls(cs) ==
    IF cs = {} THEN 0
    ELSE LET c == CHOOSE x \in cs : TRUE IN ncalls[c] + SumCalls(cs \ {c})

TotalCalls == SumCalls(Clients)

\* A Server method up to "s.fc <- f": the frame is fresh (named results zero,
\* a peek buffer as the caller made it), the closure is built and sent.  The
\* send completes at once into free buffer space of fc; otherwise the client
\* blocks in it until the worker receives.
Call(c, s, r, budget) ==
    LET k == ncalls[c] + 1
        room == Len(fcBuf[s]) < capFc[s]
    IN
    /\ ~crashed
    /\ cpc[c] = "idle"
    /\ TotalCalls < budget
    /\ ~closedFc[s]
    /\ cpc' = [cpc EXCEPT ![c] = IF room THEN "recv" ELSE "send"]
    /\ fcBuf' = IF room THEN [fcBuf EXCEPT ![s] = Append(@, Closure(c, k, r))] ELSE fcBuf
    /\ pending' = IF room THEN [pending EXCEPT ![s] = Append(@, <<c, k>>)] ELSE pending
    /\ call' = [call EXCEPT ![c] = [sess |-> s, req |-> r]]
    /\ frame' = [frame EXCEPT ![c] = ZeroFrame(r)]
    /\ snap' = [snap EXCEPT ![c] = NoSnap]
    /\ ret' = [ret EXCEPT ![c] = NoRet]
    /\ ncalls' = [ncalls EXCEPT ![c] = k]
    /\ invoked' = [invoked EXCEPT ![c] = 0]
    /\ UNCHANGED <<crashed, capFc, capEc, closedFc, ecBuf, workerVars, tracee, execThr,
                   validPokes>>

\* "s.fc <- f" on a Server whose fc was closed: the send panics, and the
\* panic, not recovered, ends the program.
CallClosed(c, s) ==
    /\ ~crashed
    /\ cpc[c] = "idle"
    /\ closedFc[s]
    /\ crashed' = TRUE
    /\ UNCHANGED <<chanVars, workerVars, clientVars, tracee, ghostVars>>

\* The operands of "return proc, <-s.ec" and "return wpid, status, <-s.ec"
\* that are variables: Go leaves their evaluation unordered with respect to
\* the receive, so they can be read while the client waits for the response.
ReadsOperands(r) == r.op \in {"startProcess", "wait"}

ReadOperands(c) ==
    /\ ~crashed
    /\ cpc[c] = "recv"
    /\ ReadsOperands(call[c].req)
    /\ ~snap[c].read
    /\ snap' = [snap EXCEPT ![c] = [read |-> TRUE, proc |-> frame[c].proc,
                                    wpid |-> frame[c].wpid, status |-> frame[c].status]]
    /\ UNCHANGED <<crashed, chanVars, workerVars, cpc, call, frame, ret, ncalls,
                   tracee, ghostVars>>

\* the worker is inside a primitive that cannot return yet
Stuck(s) ==
    /\ wpc[s] = "exec"
    /\ cur[s].caller \in Clients
    /\ Run(cur[s].req, frame[cur[s].caller]) = {}

\* what the method returns besides the error
Returned(c) ==
    IF snap[c].read
    THEN [frame[c] EXCEPT !.proc = snap[c].proc, !.wpid = snap[c].wpid,
                          !.status = snap[c].status]
    ELSE frame[c]

Deliver(c, s, resp) ==
    /\ ret' = [ret EXCEPT ![c] =
                 [err |-> resp.err, vals |-> Returned(c), sess |-> resp.sess,
                  of |-> resp.caller, k |-> resp.k, made |-> resp.made, os |-> resp.os,
                  expect |-> IF pending[s] = <<>> THEN <<0, 0>> ELSE Head(pending[s]),
                  n |-> invoked[c], stuck |-> {s2 \in Sessions : Stuck(s2)}]]
    /\ pending' = [pending EXCEPT ![s] = IF @ = <<>> THEN @ ELSE Tail(@)]
    /\ cpc' = [cpc EXCEPT ![c] = "idle"]
    /\ frame' = [frame EXCEPT ![c] = ZeroFrame(NoReq)]
    /\ snap' = [snap EXCEPT ![c] = NoSnap]

\* <-s.ec and the return.  With an empty buffer the client meets the worker
\* blocked in "ec <- f()": the send completes in the same step and the worker
\* is back at the range receive.  Otherwise the client takes the oldest
\* buffered error, and a worker blocked on the full buffer completes its send
\* into the space freed.
ClientRecv(c) ==
    LET s == call[c].sess IN
    /\ ~crashed
    /\ cpc[c] = "recv"
    /\ IF ecBuf[s] # <<>>
       THEN /\ Deliver(c, s, Head(ecBuf[s]))
            /\ IF wpc[s] = "send"
               THEN /\ ecBuf' = [ecBuf EXCEPT ![s] = Append(Tail(@), res[s])]
                    /\ wpc' = [wpc EXCEPT ![s] = "recv"]
                    /\ cur' = [cur EXCEPT ![s] = NoClosure]
                    /\ res' = [res EXCEPT ![s] = NoResponse]
               ELSE /\ ecBuf' = [ecBuf EXCEPT ![s] = Tail(@)]
                    /\ UNCHANGED <<wpc, cur, res>>
       ELSE /\ wpc[s] = "send"
            /\ Deliver(c, s, res[s])
            /\ wpc' = [wpc EXCEPT ![s] = "recv"]
            /\ cur' = [cur EXCEPT ![s] = NoClosure]
            /\ res' = [res EXCEPT ![s] = NoResponse]
            /\ UNCHANGED ecBuf
    /\ UNCHANGED <<crashed, capFc, capEc, closedFc, fcBuf, wthread, locked, call, ncalls,
                   tracee, execThr, invoked, validPokes, hist>>

\* A client goroutine that is back from its calls ends; another one takes its
\* place and starts counting its calls afresh.
ClientDone(c) ==
    /\ ~crashed
    /\ cpc[c] = "idle"
    /\ ncalls[c] > 0
    /\ ncalls' = [ncalls EXCEPT ![c] = 0]
    /\ ret' = [ret EXCEPT ![c] = NoRet]
    /\ UNCHANGED <<crashed, chanVars, workerVars, cpc, call, frame, snap, tracee, ghostVars>>

\* ------------------------------------------------------------- the worker
\* the check the panic message describes: unbuffered channels refused
BufferedInverted(s) == capFc[s] = 0 /\ capEc[s] = 0

\* no check at all
BufferedNever(s) == FALSE

\* the check written with && for ||
BufferedBoth(s) == capFc[s] # 0 /\ capEc[s] # 0

\* the check of fc alone
BufferedFc(s) == capFc[s] # 0

\* the check of ec alone
BufferedEc(s) == capEc[s] # 0

\* cap(fc) != 0 || cap(ec) != 0
Buffered(s) == capFc[s] # 0 \/ capEc[s] # 0

\* A goroutine runs on its thread unless the thread is locked to another one.
Runnable(s) == \A s2 \in Sessions \ {s} : locked[s2] => wthread[s2] # wthread[s]

\* ptraceRun's entry: panic on buffered channels.  The panic is not
\* recovered, so it ends the program.
WorkerCheck(s) ==
    /\ ~crashed
    /\ wpc[s] = "check"
    /\ Runnable(s)
    /\ IF Buffered(s)
       THEN /\ wpc' = [wpc EXCEPT ![s] = "panicked"]
            /\ crashed' = TRUE
       ELSE /\ wpc' = [wpc EXCEPT ![s] = "lock"]
            /\ UNCHANGED crashed
    /\ UNCHANGED <<chanVars, wthread, locked, cur, res, clientVars, tracee, ghostVars>>

\* ptraceRun with its entry check bypassed: whatever the capacities, the
\* worker goes on to lock its thread and serve.
WorkerCheckBypassed(s) ==
    /\ ~crashed
    /\ wpc[s] = "check"
    /\ Runnable(s)
    /\ wpc' = [wpc EXCEPT ![s] = "lock"]
    /\ UNCHANGED <<crashed, chanVars, wthread, locked, cur, res, clientVars, tracee, ghostVars>>

\* ptraceRun without the call of LockOSThread
LockOSThreadOmitted(s) == locked

\* rt.LockOSThread()
LockOSThread(s) == [locked EXCEPT ![s] = TRUE]

WorkerLock(s) ==
    /\ ~crashed
    /\ wpc[s] = "lock"
    /\ Runnable(s)
    /\ locked' = LockOSThread(s)
    /\ wpc' = [wpc EXCEPT ![s] = "recv"]
    /\ UNCHANGED <<crashed, chanVars, wthread, cur, res, clientVars, tracee, ghostVars>>

\* The Go scheduler moves a goroutine that is not locked to another thread,
\* one that is not locked to another goroutine.
Migrate(s) ==
    /\ ~crashed
    /\ ~locked[s]
    /\ wpc[s] # "panicked"
    /\ \E t \in Threads :
        /\ t # wthread[s]
        /\ \A s2 \in Sessions \ {s} : locked[s2] => wthread[s2] # t
        /\ wthread' = [wthread EXCEPT ![s] = t]
    /\ UNCHANGED <<crashed, chanVars, wpc, locked, cur, res, clientVars, tracee, ghostVars>>

\* a worker that ranges over the request channel of another Server
SendersOthers(s) == {c \in Clients : cpc[c] = "send" /\ call[c].sess # s}

\* one request channel shared by all Servers
SendersAnywhere(s) == {c \in Clients : cpc[c] = "send"}

\* the clients blocked in a send on the request channel of s
Senders(s) == {c \in Clients : cpc[c] = "send" /\ call[c].sess = s}

\* "for f := range fc".  With an empty buffer the worker meets a client
\* blocked in "s.fc <- f", whose send completes.  Otherwise it takes the oldest
\* buffered closure, and a client blocked on the full buffer (if any) completes
\* its send into the space freed.
WorkerRecv(s) ==
    LET blocked == Senders(s) IN
    /\ ~crashed
    /\ wpc[s] = "recv"
    /\ IF fcBuf[s] # <<>>
       THEN /\ cur' = [cur EXCEPT ![s] = Head(fcBuf[s])]
            /\ IF blocked = {}
               THEN /\ fcBuf' = [fcBuf EXCEPT ![s] = Tail(@)]
                    /\ UNCHANGED <<cpc, pending>>
               ELSE \E c \in blocked :
                    /\ fcBuf' = [fcBuf EXCEPT ![s] =
                                   Append(Tail(@), Closure(c, ncalls[c], call[c].req))]
                    /\ cpc' = [cpc EXCEPT ![c] = "recv"]
                    /\ pending' = [pending EXCEPT ![s] = Append(@, <<c, ncalls[c]>>)]
       ELSE \E c \in blocked :
            /\ cur' = [cur EXCEPT ![s] = Closure(c, ncalls[c], call[c].req)]
            /\ cpc' = [cpc EXCEPT ![c] = "recv"]
            /\ pending' = [pending EXCEPT ![s] = Append(@, <<c, ncalls[c]>>)]
            /\ UNCHANGED fcBuf
    /\ wpc' = [wpc EXCEPT ![s] = "exec"]
    /\ UNCHANGED <<crashed, capFc, capEc, closedFc, ecBuf, wthread, locked, res, call,
                   frame, snap, ret, ncalls, tracee, execThr, invoked, validPokes, hist>>

\* a loop that leaves when nothing is queued
RangeDoneEarly(s) == fcBuf[s] = <<>>

\* "for f := range fc" ends when fc is closed and drained
RangeDone(s) == closedFc[s] /\ fcBuf[s] = <<>>

\* the range loop ends and ptraceRun returns: the worker goroutine is over
WorkerReturn(s) ==
    /\ ~crashed
    /\ wpc[s] = "recv"
    /\ RangeDone(s)
    /\ wpc' = [wpc EXCEPT ![s] = "done"]
    /\ UNCHANGED <<crashed, chanVars, wthread, locked, cur, res, clientVars, tracee, ghostVars>>

\* The owner of the Server closes fc.  A client blocked in its send on fc
\* panics, which ends the program.
CloseFc(s) ==
    /\ ~crashed
    /\ ~closedFc[s]
    /\ closedFc' = [closedFc EXCEPT ![s] = TRUE]
    /\ crashed' = (Senders(s) # {})
    /\ UNCHANGED <<capFc, capEc, fcBuf, ecBuf, workerVars, clientVars, tracee, ghostVars>>

Overlap(a1, n1, a2, n2) == a1 < a2 + n2 /\ a2 < a1 + n1

\* the pokes known to be intact after request r ran with error e: a poke
\* drops the earlier pokes it overlaps, resuming the tracee drops them all
PokesAfter(r, e) ==
    IF r.op = "ptracePoke"
    THEN {v \in validPokes :
            ~(v.pid = r.pid /\ Overlap(v.addr, Len(v.data), r.addr, Len(r.data)))}
         \cup (IF e = Nil THEN {[pid |-> r.pid, addr |-> r.addr, data |-> r.data]} ELSE {})
    ELSE IF r.op \in {"ptraceCont", "ptraceSingleStep"} /\ e = Nil
    THEN {v \in validPokes : v.pid # r.pid}
    ELSE validPokes

\* the frame the closure cl writes to is live while its caller is in the call
Live(cl) == cl.caller \in Clients /\ ncalls[cl.caller] = cl.k /\ cpc[cl.caller] = "recv"

\* a loop body that runs f and sends nothing
SendResultDropped(s, resp) ==
    /\ wpc' = [wpc EXCEPT ![s] = "recv"]
    /\ cur' = [cur EXCEPT ![s] = NoClosure]
    /\ UNCHANGED <<res, ecBuf>>

\* the send handed to a goroutine of its own: the loop does not wait for it
SendResultDetached(s, resp) ==
    /\ ecBuf' = [ecBuf EXCEPT ![s] = Append(@, resp)]
    /\ wpc' = [wpc EXCEPT ![s] = "recv"]
    /\ cur' = [cur EXCEPT ![s] = NoClosure]
    /\ UNCHANGED res

\* "ec <- v" as far as the worker gets alone: the send completes at once into
\* free buffer space of ec; otherwise the worker blocks in it until a client
\* receives.
SendResult(s, resp) ==
    IF Len(ecBuf[s]) < capEc[s]
    THEN /\ ecBuf' = [ecBuf EXCEPT ![s] = Append(@, resp)]
         /\ wpc' = [wpc EXCEPT ![s] = "recv"]
         /\ cur' = [cur EXCEPT ![s] = NoClosure]
         /\ UNCHANGED res
    ELSE /\ res' = [res EXCEPT ![s] = resp]
         /\ wpc' = [wpc EXCEPT ![s] = "send"]
         /\ UNCHANGED <<ecBuf, cur>>

\* the closure panics instead of returning: os.StartProcess dereferences attr
Panics(r) == r.op = "startProcess" /\ r.arg = 1

\* a loop body with a deferred recover that sends the panic as an error
Recovered(s) ==
    /\ SendResult(s, Response(Errno("panic"), s, cur[s], NoRun))
    /\ UNCHANGED crashed

\* A panic inside f() unwinds ptraceRun, which defers nothing: nothing is sent
\* on ec and the panic, not recovered, ends the program.
Unrecovered(s) ==
    /\ wpc' = [wpc EXCEPT ![s] = "panicked"]
    /\ crashed' = TRUE
    /\ UNCHANGED <<cur, res, ecBuf>>

\* "ec <- f()": one run of the closure on the worker's thread, and the start
\* of the send of its error.  A blocking primitive has no run until it can
\* return.
WorkerExec(s) ==
    LET cl == cur[s]
        fr == IF Live(cl) THEN frame[cl.caller] ELSE ZeroFrame(cl.req)
    IN
    /\ ~crashed
    /\ wpc[s] = "exec"
    /\ IF Panics(cl.req)
       THEN /\ Unrecovered(s)
            /\ UNCHANGED <<frame, tracee, validPokes>>
       ELSE /\ \E o \in Run(cl.req, fr) :
                /\ SendResult(s, Response(o.err, s, cl, o))
                /\ frame' = IF Live(cl) THEN [frame EXCEPT ![cl.caller] = o.fr] ELSE frame
                /\ tracee' = o.tr
                /\ validPokes' = PokesAfter(cl.req, o.err)
            /\ UNCHANGED crashed
    /\ execThr' = [execThr EXCEPT ![s] = @ \cup {wthread[s]}]
    /\ invoked' = IF Live(cl) THEN [invoked EXCEPT ![cl.caller] = @ + 1] ELSE invoked
    /\ UNCHANGED <<capFc, capEc, closedFc, fcBuf, wthread, locked, cpc, call, snap, ret,
                   ncalls, pending, hist>>

\* ------------------------------------------------------------- the tracee
\* where a tracee in state st and at pc can stop: a started one at its entry,
\* before the first instruction; a single-stepped one after one instruction;
\* a continued one anywhere (a breakpoint, a signal)
StopsAt(st, pc) ==
    CASE st = "starting" -> {pc}
      [] st = "stepping" -> {(pc + 1) % (MaxPC + 1)}
      [] OTHER           -> PCs

\* A tracee that was started or resumed stops and becomes waitable.
TraceeStop(p) ==
    /\ ~crashed
    /\ tracee[p].state \in {"starting", "running", "stepping"}
    /\ \E v \in StopsAt(tracee[p].state, tracee[p].pc) :
        tracee' = [tracee EXCEPT ![p].state = "stopped", ![p].changed = TRUE, ![p].pc = v]
    /\ UNCHANGED <<crashed, chanVars, workerVars, clientVars, ghostVars>>

\* ---------------------------------------------------------- specifications
\* the steps of a program with the client goroutines cls and the Servers sess,
\* whose clients make budget calls in all, drawn from reqs
Steps(cls, sess, reqs, budget) ==
    \/ \E c \in cls, s \in sess, r \in reqs : Call(c, s, r, budget) /\ UNCHANGED hist
    \/ \E c \in cls : ReadOperands(c)
    \/ \E c \in cls : ClientRecv(c)
    \/ \E s \in sess : WorkerCheck(s)
    \/ \E s \in sess : WorkerLock(s)
    \/ \E s \in sess : WorkerRecv(s)
    \/ \E s \in sess : WorkerExec(s)
    \/ \E p \in Pids : TraceeStop(p)

\* one Server with channels of any capacity, concurrent clients
Next == Steps(Clients, {1}, BlockingReqs, MaxCalls)

Spec == Init /\ [][Next]_vars

\* one Server with unbuffered channels and one client, every method, and a
\* scheduler that moves goroutines between threads
InitOps == InitWith({1}, {0})

NextOps == Steps({1}, {1}, AllReqs, MaxCalls) \/ Migrate(1)

SpecOps == InitOps /\ [][NextOps]_vars

\* one Server with unbuffered channels and one client, the memory methods
\* with every argument
InitMem == InitWith({1}, {0})

NextMem == Steps({1}, {1}, MemReqs, MaxCalls + 1)

SpecMem == InitMem /\ [][NextMem]_vars

\* two Servers, each with unbuffered channels, and two concurrent clients
InitAll == InitWith({1, 2}, {0})

NextAll == Steps({1, 2}, {1, 2}, BlockingReqs, MaxCalls)

SpecAll == InitAll /\ [][NextAll]_vars

\* The next call of the scenario.  The caller has the results of its previous
\* call; the log keeps them with the program counter the tracee had then.
ScenarioCall(c) ==
    /\ ncalls[c] < Len(Scenario)
    /\ Call(c, 1, Scenario[ncalls[c] + 1], Len(Scenario))
    /\ hist' = IF ncalls[c] = 0 THEN <<>>
               ELSE Append(hist, [op |-> call[c].req.op, err |-> ret[c].err,
                                  vals |-> ret[c].vals, made |-> ret[c].made,
                                  pc |-> tracee[1].pc])

\* one Server with unbuffered channels and one client that makes the calls of
\* the scenario
InitScenario == InitWith({1}, {0})

NextScenario ==
    \/ ScenarioCall(1)
    \/ ReadOperands(1)
    \/ ClientRecv(1)
    \/ WorkerCheck(1)
    \/ WorkerLock(1)
    \/ WorkerRecv(1)
    \/ WorkerExec(1)
    \/ \E p \in Pids : TraceeStop(p)

SpecScenario == InitScenario /\ [][NextScenario]_vars

\* one Server with channels of any capacity whose worker skips the entry
\* check, two concurrent clients
CheckedReqs == StartReqs \cup ContReqs({1})

NextUnchecked ==
    \/ \E c \in {1, 2}, r \in CheckedReqs : Call(c, 1, r, MaxCalls) /\ UNCHANGED hist
    \/ \E c \in {1, 2} : ReadOperands(c)
    \/ \E c \in {1, 2} : ClientRecv(c)
    \/ WorkerCheckBypassed(1)
    \/ WorkerLock(1)
    \/ WorkerRecv(1)
    \/ WorkerExec(1)
    \/ \E p \in Pids : TraceeStop(p)

SpecUnchecked == Init /\ [][NextUnchecked]_vars

\* one Server with unbuffered channels and concurrent clients that go on
\* calling; the worker goroutine and a client
\* that can receive are scheduled, and a client blocked in its send on fc is
\* not passed over for ever
InitLive == InitWith({1}, {0})

\* methods whose primitive returns at once, with an error when no tracee is
\* stopped
LiveReqs == ContReqs({1}) \cup {Req("ptraceSetOptions", 1, 0, <<>>, 0, 0)}

NextLive ==
    \/ \E c \in Clients, r \in LiveReqs : Call(c, 1, r, MaxCalls) /\ UNCHANGED hist
    \/ \E c \in Clients : ClientDone(c)
    \/ \E c \in Clients : ClientRecv(c)
    \/ WorkerCheck(1)
    \/ WorkerLock(1)
    \/ WorkerRecv(1)
    \/ WorkerExec(1)

\* the worker takes the closure of client c
Accept(c) == WorkerRecv(1) /\ cpc[c] = "send" /\ cpc'[c] = "recv"

Fairness ==
    /\ WF_vars(WorkerCheck(1))
    /\ WF_vars(WorkerLock(1))
    /\ WF_vars(WorkerExec(1))
    /\ \A c \in Clients : SF_vars(Accept(c))
    /\ \A c \in Clients : WF_vars(ClientRecv(c))

SpecLive == InitLive /\ [][NextLive]_vars /\ Fairness

\* one Server with unbuffered channels and concurrent clients, one of whose
\* calls makes the primitive panic
PanicReqs == StartReqs \cup NilAttrReqs \cup ContReqs({1})

InitPanic == InitWith({1}, {0})

NextPanic == Steps(Clients, {1}, PanicReqs, MaxCalls)

SpecPanic == InitPanic /\ [][NextPanic]_vars

\* one Server with unbuffered channels and concurrent clients, whose owner
\* closes fc at any moment
InitTeardown == InitWith({1}, {0})

NextTeardown ==
    \/ Steps(Clients, {1}, CheckedReqs, MaxCalls)
    \/ \E c \in Clients : CallClosed(c, 1)
    \/ CloseFc(1)
    \/ WorkerReturn(1)

SpecTeardown == InitTeardown /\ [][NextTeardown]_vars

TypeOK ==
    /\ crashed \in BOOLEAN
    /\ \A s \in Sessions :
        wpc[s] \in {"check", "lock", "recv", "exec", "send", "panicked", "done"}
    /\ \A c \in Clients : cpc[c] \in {"idle", "send", "recv"}

\* ------------------------------------------------------------------ claims
\* the client is back from a call
Back(c) == cpc[c] = "idle" /\ ret[c].k > 0

\* the worker is in its service loop
Serving(s) == wpc[s] \in {"recv", "exec", "send"}

\* the clients that have sent a closure on s.fc and not yet received from s.ec
Awaiting(s) == {c \in Clients : cpc[c] = "recv" /\ call[c].sess = s}

\* C1: No cross-talk.  The error a client receives from ec is the one produced
\* by running the closure of its own current call: whenever the worker holds a
\* result to send, the only client that can receive it is the one whose closure
\* ran, and every call that has returned got the response made for that very
\* call (same caller, same call number, the worker's error).
C1_NoCrossTalk ==
    /\ \A s \in Sessions :
        wpc[s] = "send" => \A c \in Awaiting(s) : res[s].caller = c /\ res[s].k = ncalls[c]
    /\ \A c \in Clients :
        Back(c) => ret[c].of = c /\ ret[c].k = ncalls[c]

\* two clients have called the same Server concurrently: one is back with its
\* response while the other has its closure accepted
C1_Witness ==
    \E c1, c2 \in Clients :
        /\ c1 # c2
        /\ Back(c1) /\ ret[c1].of = c1
        /\ call[c2].sess = call[c1].sess
        /\ cpc[c2] = "recv" /\ wpc[call[c2].sess] = "send"

\* C2: Strict serialization.  A serving worker has at most one request that
\* was accepted and not yet answered; while it waits at the range receive no
\* request is outstanding (the previous response was received), and while it
\* runs a closure or sends its result, the one outstanding request is the one
\* of the closure it holds.
C2_StrictSerialization ==
    \A s \in Sessions :
        Serving(s) =>
            /\ Cardinality(Awaiting(s)) <= 1
            /\ wpc[s] = "recv" => Awaiting(s) = {} /\ pending[s] = <<>> /\ cur[s] = NoClosure
            /\ wpc[s] \in {"exec", "send"} =>
                  /\ Awaiting(s) = {cur[s].caller}
                  /\ pending[s] = << <<cur[s].caller, cur[s].k>> >>

\* the worker runs the closure of a client's second call while another client
\* is blocked in its send
C2_Witness ==
    \E s \in Sessions, c \in Clients :
        /\ wpc[s] = "exec"
        /\ cpc[c] = "send" /\ call[c].sess = s
        /\ cur[s].caller # c
        /\ cur[s].k = 2

\* C3: Thread affinity.  Every primitive of a session was executed on one and
\* the same OS thread, the thread of the worker; the worker is locked to that
\* thread from before it takes its first closure, and stays locked.
C3_ThreadAffinity ==
    \A s \in Sessions :
        /\ Cardinality(execThr[s]) <= 1
        /\ execThr[s] \subseteq {wthread[s]}
        /\ Serving(s) => locked[s]
        /\ ~locked[s] => execThr[s] = {} /\ cur[s] = NoClosure

\* a worker that was moved to another thread before it locked itself has run
\* the closures of two calls of a client
C3_Witness ==
    \E s \in Sessions, c \in Clients :
        /\ execThr[s] = {wthread[s]} /\ wthread[s] # 1
        /\ Back(c) /\ ret[c].k >= 2 /\ ret[c].sess = s

\* C4: One result per request, in order.  A serving worker holds a result
\* exactly when it is sending, that result is the one of the closure it took
\* last, and nothing else is in ec; the accepted and unanswered requests are
\* exactly that one.  Each response delivered answers the oldest accepted
\* request that was unanswered.
C4_OneResultInOrder ==
    /\ \A s \in Sessions :
        Serving(s) =>
            /\ ecBuf[s] = <<>>
            /\ Len(pending[s]) = (IF wpc[s] = "recv" THEN 0 ELSE 1)
            /\ (res[s] # NoResponse) <=> (wpc[s] = "send")
            /\ wpc[s] = "send" => <<res[s].caller, res[s].k>> = Head(pending[s])
    /\ \A c \in Clients :
        Back(c) => ret[c].expect = <<ret[c].of, ret[c].k>>

\* three calls were answered in the order accepted: two clients are back, one
\* of them from its second call
C4_Witness ==
    \E c1, c2 \in Clients :
        /\ c1 # c2
        /\ Back(c1) /\ ret[c1].k = 2 /\ ret[c1].expect = <<c1, 2>>
        /\ Back(c2) /\ ret[c2].expect = <<c2, 1>>
        /\ ret[c1].sess = ret[c2].sess

\* C5: Fail-fast on misconfiguration.  A worker given a channel of capacity
\* >= 1 (fc or ec) gets no further than its entry check: it is never locked to
\* a thread, never takes or runs a closure, and the only step it takes is the
\* panic, which ends the program.  A worker past the check has two channels of
\* capacity zero.
C5_FailFast ==
    \A s \in Sessions :
        /\ (capFc[s] >= 1 \/ capEc[s] >= 1) =>
              /\ wpc[s] \in {"check", "panicked"}
              /\ ~locked[s]
              /\ cur[s] = NoClosure /\ res[s] = NoResponse /\ execThr[s] = {}
        /\ wpc[s] = "panicked" => crashed /\ (capFc[s] >= 1 \/ capEc[s] >= 1)
        /\ wpc[s] \in {"lock", "recv", "exec", "send"} => capFc[s] = 0 /\ capEc[s] = 0

\* a worker with an unbuffered fc and a buffered ec has panicked while a client
\* was blocked sending its closure
C5_Witness ==
    \E s \in Sessions, c \in Clients :
        /\ wpc[s] = "panicked"
        /\ capFc[s] = 0 /\ capEc[s] >= 1
        /\ cpc[c] = "send" /\ call[c].sess = s

\* C6: Partial-transfer detection.  When PtracePeekText / PtracePokeText
\* reported no error and a count n other than the length N of the buffer, the
\* call returns the fmt.Errorf error of its method carrying n and N in that
\* order; the call returns nil exactly when the primitive reported no error
\* and n = N.
C6_PartialTransfer ==
    \A c \in Clients :
        Back(c) /\ call[c].req.op \in {"ptracePeek", "ptracePoke"} =>
            LET N == call[c].req.n
                rep == ret[c].os
            IN
            /\ rep.err = Nil /\ rep.n # N =>
                  /\ ret[c].err.kind = "fmt"
                  /\ ret[c].err.msg = (IF call[c].req.op = "ptracePeek" THEN PeekFmt ELSE PokeFmt)
                  /\ ret[c].err.a = rep.n
                  /\ ret[c].err.b = N
            /\ (ret[c].err = Nil) <=> (rep.err = Nil /\ rep.n = N)

\* a peek of 2 bytes of which the primitive transferred 1 without an error
C6_Witness ==
    \E c \in Clients :
        /\ Back(c) /\ call[c].req.op = "ptracePeek"
        /\ call[c].req.n = 2 /\ ret[c].os = Reported(Nil, 1)
        /\ ret[c].err = Errorf(PeekFmt, 1, 2)

\* C7: Synchronous completion with own results.  A call returns after exactly
\* one run of its own closure, and everything it returns (the error, and the
\* process handle, the pid, the status, the buffers) is what that run produced.
C7_OwnResults ==
    \A c \in Clients :
        Back(c) => /\ ret[c].n = 1
                   /\ ret[c].of = c
                   /\ ret[c].vals = ret[c].made

\* C8: Errors surfaced verbatim, no retry, no pre-check.  A call of continue,
\* single-step, set options, get/set registers, start process or wait that has
\* returned made exactly one invocation of its primitive, returned exactly the
\* error the primitive reported, and left the worker in its service loop.
C8_ErrorsVerbatim ==
    \A c \in Clients :
        Back(c) /\ call[c].req.op \notin {"ptracePeek", "ptracePoke"} =>
            /\ ret[c].n = 1
            /\ ret[c].err = ret[c].os.err
            /\ ~crashed /\ Serving(ret[c].sess)

\* get registers of a running tracee failed with ESRCH after one invocation,
\* as a later call of the client, and the worker waits for the next closure
C8_Witness ==
    \E c \in Clients :
        /\ Back(c) /\ call[c].req.op = "ptraceGetRegs" /\ ret[c].k >= 2
        /\ tracee[call[c].req.pid].state \in {"starting", "running"}
        /\ ret[c].err = Errno("ESRCH") /\ ret[c].n = 1
        /\ wpc[ret[c].sess] = "recv"

\* C9: Round-trip memory integrity.  A successful peek of N bytes at address A
\* returns the bytes of every successful poke of N bytes at A that no later
\* poke overlapped and after which the tracee was not resumed.
C9_RoundTrip ==
    \A c \in Clients :
        Back(c) /\ call[c].req.op = "ptracePeek" /\ ret[c].err = Nil =>
            \A v \in validPokes :
                (v.pid = call[c].req.pid /\ v.addr = call[c].req.addr
                 /\ Len(v.data) = call[c].req.n)
                    => ret[c].vals.buf = v.data

\* two bytes, not both zero, were poked and peeked back
C9_Witness ==
    \E c \in Clients, v \in validPokes :
        /\ Back(c) /\ call[c].req.op = "ptracePeek" /\ ret[c].err = Nil
        /\ v.pid = call[c].req.pid /\ v.addr = call[c].req.addr
        /\ Len(v.data) = 2 /\ call[c].req.n = 2
        /\ v.data # Zeros(2)
        /\ ret[c].vals.buf = v.data

\* C10: Session independence.  A worker only ever runs closures of calls made
\* on its own Server, and a call only ever receives a response sent by the
\* worker of the Server it was made on.  While the worker of one Server is
\* inside a primitive that does not return, a call made on another Server can
\* always take its next step: its closure is taken by that Server's worker
\* when it waits at the range receive, and once taken (for a primitive that
\* does not block) it is run and its response is received.
C10_SessionIndependence ==
    /\ \A s \in Sessions :
        wpc[s] \in {"exec", "send"} =>
            cur[s].caller \in Clients /\ call[cur[s].caller].sess = s
    /\ \A c \in Clients :
        Back(c) => ret[c].sess = call[c].sess /\ ret[c].of = c
    /\ \A c \in Clients : \A s1, s2 \in {1, 2} :
        (s1 # s2 /\ Stuck(s1) /\ call[c].sess = s2) =>
            /\ (cpc[c] = "send" /\ wpc[s2] = "recv") => ENABLED WorkerRecv(s2)
            /\ (cpc[c] = "recv" /\ call[c].req.op # "wait") =>
                  ENABLED (WorkerExec(s2) \/ ClientRecv(c))

\* a call on Server 2 returned while the worker of Server 1 was stuck in wait,
\* and it still is
C10_Witness ==
    \E c \in Clients :
        /\ Back(c) /\ ret[c].sess = 2 /\ ret[c].stuck = {1}
        /\ Stuck(1)

\* the calls of the scenario that have returned, and what call i returned
Completed == Len(hist) + (IF Back(1) THEN 1 ELSE 0)

Result(i) ==
    IF i <= Len(hist) THEN hist[i]
    ELSE [op |-> call[1].req.op, err |-> ret[1].err, vals |-> ret[1].vals,
          made |-> ret[1].made, pc |-> tracee[1].pc]

AllNil(n) == Completed >= n /\ \A i \in 1..n : Result(i).err = Nil

\* C11: End-to-end session scenario.  When start process, set options and
\* continue have succeeded, the wait that follows does not return while the
\* tracee runs and returns pid 1 with a stopped status; when the single-step
\* and the second wait have succeeded too, that wait returns pid 1 and stopped
\* with the program counter one instruction after where the first wait found
\* it, and a get registers that succeeds returns that program counter.
C11_Scenario ==
    /\ (wpc[1] = "exec" /\ cur[1].req.op = "wait"
        /\ tracee[1].state \in {"running", "stepping"}) => ~ENABLED WorkerExec(1)
    /\ AllNil(4) => Result(4).vals.wpid = 1 /\ Result(4).vals.status = "stopped"
    /\ AllNil(6) =>
          /\ Result(6).vals.wpid = 1 /\ Result(6).vals.status = "stopped"
          /\ Result(6).pc = (Result(4).pc + 1) % (MaxPC + 1)
    /\ AllNil(7) => Result(7).vals.regs = (Result(4).pc + 1) % (MaxPC + 1)

\* the response a client of s that receives now would get
Offered(s) ==
    IF ecBuf[s] # <<>> THEN {Head(ecBuf[s])}
    ELSE IF wpc[s] = "send" THEN {res[s]}
    ELSE {}

\* C12: Necessity of the unbuffered channels.  With the entry check bypassed,
\* a session whose two channels have capacity zero never has a second request
\* accepted before the first response is received and never hands a client the
\* response made for another client's request; with capacity >= 1 on fc or on
\* ec, whenever a response made for one client is on offer while another client
\* has its request accepted, that other client can receive it.
C12_Necessity ==
    \A s \in Sessions :
        /\ (capFc[s] = 0 /\ capEc[s] = 0) =>
              /\ Len(pending[s]) <= 1
              /\ \A c \in Awaiting(s), o \in Offered(s) : o.caller = c
              /\ \A c \in Clients : Back(c) /\ ret[c].sess = s => ret[c].of = c
        /\ (capFc[s] >= 1 \/ capEc[s] >= 1) =>
              \A c \in Awaiting(s), o \in Offered(s) :
                  o.caller # c => ENABLED ClientRecv(c)

\* with a buffered fc and an unbuffered ec, a client is back from its call
\* with the response made for the other client's request
C12_Witness ==
    \E c \in Clients :
        /\ Back(c) /\ ret[c].of # c /\ ret[c].of \in Clients
        /\ capFc[ret[c].sess] >= 1 /\ capEc[ret[c].sess] = 0

\* C13: Head-of-line blocking without cancellation.  In every step taken
\* while the worker of a session is inside a primitive that cannot return, the
\* worker stays in that operation, no request of the session is accepted or
\* answered, no primitive is run, and every client that is in a call on the
\* session stays where it is and has returned nothing: only the tracee
\* changing state, which lets the primitive return, ends this.
C13_HeadOfLine ==
    [][\A s \in Sessions :
          Stuck(s) =>
              /\ wpc'[s] = wpc[s] /\ cur'[s] = cur[s] /\ res'[s] = res[s]
              /\ pending'[s] = pending[s]
              /\ execThr'[s] = execThr[s]
              /\ \A c \in Clients :
                    (cpc[c] # "idle" /\ call[c].sess = s) =>
                        /\ cpc'[c] = cpc[c]
                        /\ ret'[c] = ret[c]
                        /\ call'[c] = call[c]]_vars

\* the worker is inside a wait whose tracee has not changed state, the caller
\* of wait is waiting for the response and another client is blocked in its
\* send
C13_Witness ==
    \E c1, c2 \in Clients :
        /\ Stuck(1) /\ cur[1].req.op = "wait" /\ cur[1].caller = c1
        /\ cpc[c1] = "recv"
        /\ c2 # c1 /\ cpc[c2] = "send" /\ call[c2].sess = 1

\* C14: Eventual completion.  On a Server with unbuffered channels whose
\* primitives all return, under the fair scheduling of the worker and of the
\* clients that compete to send on fc, every call a client has started returns.
C14_EventualCompletion == \A c \in Clients : (cpc[c] # "idle") ~> (cpc[c] = "idle")

\* two clients that called concurrently are both back, one of them from its
\* second call
C14_Witness ==
    \E c1, c2 \in Clients :
        /\ c1 # c2
        /\ Back(c1) /\ ret[c1].k = 2 /\ ret[c1].n = 1
        /\ Back(c2) /\ ret[c2].n = 1

\* the worker panicked while it ran a closure
PanickedInOp(s) == wpc[s] = "panicked" /\ cur[s] # NoClosure

\* C15: A panic in an operation is fatal and not recovered.  When a closure
\* panics in the worker, no response is sent for its request (ec is empty, the
\* worker holds no result, the request stays accepted and unanswered and its
\* caller has not returned), the worker takes and runs no further closure and
\* no client receives anything; no call whose closure panics ever returns, so
\* the panic never reaches a caller as an error value.
C15_PanicFatal ==
    /\ \A s \in Sessions :
        PanickedInOp(s) =>
            /\ crashed
            /\ res[s] = NoResponse /\ ecBuf[s] = <<>>
            /\ pending[s] = << <<cur[s].caller, cur[s].k>> >>
            /\ cpc[cur[s].caller] = "recv"
            /\ ~ENABLED WorkerRecv(s)
            /\ ~ENABLED WorkerExec(s)
            /\ \A c \in Clients : ~ENABLED ClientRecv(c)
    /\ \A c \in Clients :
        /\ Back(c) => ~Panics(call[c].req)
        /\ ret[c].err # Errno("panic")

\* the closure of a client's second call panicked after its first call was
\* served, while another client was blocked in its send
C15_Witness ==
    \E c \in Clients :
        /\ PanickedInOp(1) /\ Panics(cur[1].req) /\ cur[1].k = 2
        /\ cpc[c] = "send" /\ call[c].sess = 1

\* C16: Teardown terminates the worker.  A worker that has terminated had
\* its fc closed, holds no closure and no result, and has answered every
\* request it accepted; it takes and runs no further closure and no client
\* receives a further response.  A worker whose fc is open has not terminated.
\* When fc is closed and the worker waits at the range receive, the one step it
\* can take is to leave the loop.
C16_Teardown ==
    \A s \in Sessions :
        /\ wpc[s] = "done" =>
              /\ closedFc[s]
              /\ cur[s] = NoClosure /\ res[s] = NoResponse /\ ecBuf[s] = <<>>
              /\ pending[s] = <<>> /\ Awaiting(s) = {}
              /\ ~ENABLED WorkerRecv(s)
              /\ ~ENABLED WorkerExec(s)
              /\ \A c \in Clients : ~ENABLED ClientRecv(c)
        /\ ~closedFc[s] => wpc[s] # "done" /\ ~ENABLED WorkerReturn(s)
        /\ (closedFc[s] /\ wpc[s] = "recv" /\ ~crashed) =>
              ENABLED WorkerReturn(s) /\ ~ENABLED WorkerRecv(s)

\* fc was closed after calls of both clients had returned, and the worker has
\* terminated
C16_Witness ==
    \E c1, c2 \in Clients :
        /\ c1 # c2 /\ Back(c1) /\ Back(c2)
        /\ wpc[1] = "done" /\ ~crashed

\* a step of the request/response protocol of session s
ProtocolStep(s) ==
    \/ WorkerRecv(s)
    \/ WorkerExec(s)
    \/ \E c \in Clients : call[c].sess = s /\ ClientRecv(c)

\* C17: No protocol deadlock.  While a serving worker runs a closure or is
\* blocked sending its result, exactly one client has completed its send on fc
\* and not yet its receive from ec, it is the caller of the closure, and no
\* other client can receive; a worker blocked in its send can always complete
\* it with that client, a worker with a closure whose primitive can return can
\* run it, and a worker at the range receive can take the closure of any
\* blocked sender.  The only states of a serving session in which no step of
\* the protocol is possible are those where the worker awaits a closure and
\* every client is idle, and those where the worker is inside a primitive that
\* blocks.
C17_NoDeadlock ==
    \A s \in Sessions :
        (Serving(s) /\ ~crashed) =>
            /\ wpc[s] \in {"exec", "send"} =>
                  /\ Cardinality(Awaiting(s)) = 1
                  /\ cur[s].caller \in Awaiting(s)
                  /\ \A c \in Clients : ENABLED ClientRecv(c) => c = cur[s].caller
            /\ wpc[s] = "send" => ENABLED ClientRecv(cur[s].caller)
            /\ (wpc[s] = "exec" /\ ~Stuck(s)) => ENABLED WorkerExec(s)
            /\ (wpc[s] = "recv" /\ \E c \in Clients : cpc[c] = "send" /\ call[c].sess = s)
                  => ENABLED WorkerRecv(s)
            /\ ~ENABLED ProtocolStep(s) =>
                  \/ wpc[s] = "recv" /\ \A c \in Clients : call[c].sess = s => cpc[c] = "idle"
                  \/ Stuck(s)

\* the worker is blocked sending the result of a client's second call, that
\* client is at its receive and the other client is blocked in its send
C17_Witness ==
    \E c1, c2 \in Clients :
        /\ c1 # c2
        /\ wpc[1] = "send" /\ res[1].caller = c1 /\ res[1].k = 2
        /\ cpc[c1] = "recv" /\ cpc[c2] = "send"
        /\ call[c1].sess = 1 /\ call[c2].sess = 1

\* C18: The OS error takes precedence over the partial-transfer check.  A
\* peek or poke whose primitive reported an error returns that very error,
\* whatever the count reported with it; the fmt.Errorf error is returned only
\* when the primitive reported no error; a call that fails returns exactly one
\* of the two, and they are different values.
C18_OsErrorFirst ==
    \A c \in Clients :
        Back(c) /\ call[c].req.op \in {"ptracePeek", "ptracePoke"} =>
            LET rep == ret[c].os IN
            /\ rep.err # Nil => ret[c].err = rep.err /\ ret[c].err.kind = "errno"
            /\ ret[c].err.kind = "fmt" => rep.err = Nil /\ rep.n # call[c].req.n
            /\ ret[c].err # Nil =>
                  (ret[c].err.kind = "errno" /\ rep.err # Nil)
                      # (ret[c].err.kind = "fmt" /\ rep.err = Nil)

\* a poke of 2 bytes of which the primitive wrote 1 and reported EIO returned
\* EIO
C18_Witness ==
    \E c \in Clients :
        /\ Back(c) /\ call[c].req.op = "ptracePoke"
        /\ call[c].req.n = 2 /\ ret[c].os = Reported(Errno("EIO"), 1)
        /\ ret[c].err = Errno("EIO")

====
